---- MODULE Spec2Model ----
(***************************************************************************)
(* Model of the Unmanic "postprocessor_script" plugin (src/plugin.py):     *)
(* the on_postprocessor_task_results hook, build_script and the two        *)
(* dependency provisioners, and exec_subprocess with the child process it  *)
(* waits for.                                                              *)
(*                                                                         *)
(* Text is a sequence of atoms.  An atom is either one special character   *)
(* ("{", "}", " ", "/", a quote, a backslash, a line break ...) or a run   *)
(* of ordinary characters, so that str.replace, str.strip, os.path.join    *)
(* and json.dumps can be computed position by position.                    *)
(***************************************************************************)
EXTENDS Integers, Sequences, FiniteSets, TLC

(* ------------------------------ bounds --------------------------------- *)
\* longest destination_files list handed to the hook
MaxFiles == 2
\* most lines a child process prints before it closes its output
MaxLines == 1

(* --------------------------- text helpers ------------------------------ *)
\* Python values are tagged: only the tag t is ever compared
PyNone == [t |-> "NoneType"]
PyInt(n) == [t |-> "int", v |-> n]
PyStr(s) == [t |-> "str", v |-> s]
PyList(l) == [t |-> "list", v |-> l]

Whitespace == {" ", "\n", "\r", "\t"}

\* s[i..] starts with the non-empty text old
StartsAt(s, i, old) ==
    /\ i + Len(old) - 1 <= Len(s)
    /\ \A j \in 1..Len(old) : s[i + j - 1] = old[j]

RECURSIVE ReplaceFrom(_, _, _, _)
ReplaceFrom(s, i, old, new) ==
    IF i > Len(s) THEN <<>>
    ELSE IF StartsAt(s, i, old)
         THEN new \o ReplaceFrom(s, i + Len(old), old, new)
         ELSE <<s[i]>> \o ReplaceFrom(s, i + 1, old, new)

\* str.replace(old, new) for a non-empty old: leftmost, non-overlapping
str_replace(s, old, new) == ReplaceFrom(s, 1, old, new)

\* bool(s.strip()): some character of s is not whitespace
strip_nonempty(s) == \E i \in 1..Len(s) : s[i] \notin Whitespace

\* "{} {}".format(a, b)
format2(a, b) == a \o <<" ">> \o b

Digit == <<"0", "1", "2", "3", "4", "5", "6", "7", "8", "9">>

RECURSIVE str_int(_)
\* str(n) for a natural number n
str_int(n) ==
    IF n < 10 THEN <<Digit[n + 1]>>
    ELSE str_int(n \div 10) \o <<Digit[(n % 10) + 1]>>

\* str(x) / "{}".format(x) for the values the hook stringifies
str(x) ==
    CASE x.t = "NoneType" -> <<"None">>
      [] x.t = "int" -> str_int(x.v)
      [] x.t = "str" -> x.v

\* os.path.join(a, b) for a relative b
path_join(a, b) ==
    IF a = <<>> THEN b
    ELSE IF a[Len(a)] = "/" THEN a \o b
    ELSE a \o <<"/">> \o b

\* os.path.dirname(p): everything before the last "/"
path_dirname(p) ==
    LET slashes == {i \in 1..Len(p) : p[i] = "/"}
    IN  IF slashes = {} THEN <<>>
        ELSE LET last == CHOOSE i \in slashes : \A j \in slashes : j <= i
             IN  IF last = 1 THEN <<"/">> ELSE SubSeq(p, 1, last - 1)

\* the directories os.makedirs(p) makes sure exist: p and its ancestors
makedirs_set(p) ==
    {p} \cup {SubSeq(p, 1, i - 1) : i \in {j \in 2..Len(p) : p[j] = "/"}}

RECURSIVE json_escape(_)
\* the body of a JSON string: quote and backslash and line breaks escaped
json_escape(s) ==
    IF s = <<>> THEN <<>>
    ELSE (CASE s[1] = "\"" -> <<"\\", "\"">>
            [] s[1] = "\\" -> <<"\\", "\\">>
            [] s[1] = "\n" -> <<"\\", "n">>
            [] s[1] = "\r" -> <<"\\", "r">>
            [] OTHER -> <<s[1]>>) \o json_escape(Tail(s))

RECURSIVE json_items(_)
json_items(l) ==
    IF l = <<>> THEN <<>>
    ELSE <<"\"">> \o json_escape(l[1]) \o <<"\"">>
         \o (IF Len(l) > 1 THEN <<",", " ">> ELSE <<>>)
         \o json_items(Tail(l))

\* json.dumps(x) for None or a list of str
json_dumps(x) ==
    IF x.t = "NoneType" THEN <<"null">>
    ELSE <<"[">> \o json_items(x.v) \o <<"]">>

(* ------------------------- the host's side ----------------------------- *)
\* the threads of the host process that may call the hook
Threads == {1, 2}
LibraryIds == {1, 2}

\* settings.get_profile_directory()
profile_directory == <<"/", "profile">>
\* shutil.which(name) for the interpreters the settings form offers
which(name) == <<"/", "usr", "/", "bin", "/", name>>
\* data['final_cache_path'] of the task handled by thread t
task_cache_path(t) == <<"/", "cache", "/", "task">> \o str_int(t) \o <<"/", "out.mkv">>
\* data['source_data']['abspath']
source_abspath == <<"/", "library", "/", "in.mkv">>
\* destination paths the host's file movements may have produced
FilePool ==
    << <<"/", "library", "/", "a.mkv">>,
       <<"/", "library", "/", "b", "\"", ".mkv">>,
       <<"/", "library", "/", "c.mkv">>,
       <<"/", "library", "/", "d", "\\", ".mkv">> >>

Reverse(l) == [i \in 1..Len(l) |-> l[Len(l) + 1 - i]]

\* data['destination_files']: missing, or a list of at most MaxFiles paths
DestinationFiles ==
    {[t |-> "absent"]}
    \cup {PyList(SubSeq(FilePool, 1, n)) : n \in 0..MaxFiles}
    \cup {PyList(Reverse(SubSeq(FilePool, 1, MaxFiles)))}

\* the placeholders of the settings form
K_library_id == <<"{", "library_id", "}">>
K_final_cache_path == <<"{", "final_cache_path", "}">>
K_source_file_path == <<"{", "source_file_path", "}">>
K_source_file_size == <<"{", "source_file_size", "}">>
K_output_file_path == <<"{", "output_file_path", "}">>
K_output_files == <<"{", "output_files", "}">>

\* the 'cmd' and 'args' settings a user may have saved
CmdArgs ==
    { [cmd |-> <<"echo">>, args |-> K_output_file_path],
      [cmd |-> <<"echo", " ">> \o K_output_files,
       args |-> K_output_file_path \o <<"\n">> \o K_output_files],
      [cmd |-> <<"stat", " ">> \o K_source_file_path,
       args |-> K_source_file_size \o <<" ">> \o K_library_id \o <<"\r", "\n">>
                \o K_final_cache_path \o <<" ">> \o K_source_file_size],
      [cmd |-> <<>>, args |-> <<"\r", "\n">>] }

InputTypes == {"command", "bash", "python3", "node"}

\* Settings.settings as saved for a library
SettingsSet ==
    { [only_on_task_processing_success |-> o,
       run_for_each_destination_file |-> r,
       input_type |-> it,
       script |-> <<"script-body">>,
       cmd |-> ca.cmd,
       args |-> ca.args,
       script_dependencies |-> <<"dependencies">>] :
      o \in BOOLEAN, r \in BOOLEAN, it \in InputTypes, ca \in CmdArgs }

\* the 'data' argument of the hook when thread t handles a task
DataSet(t) ==
    { [final_cache_path |-> task_cache_path(t),
       library_id |-> l,
       task_processing_success |-> s,
       destination_files |-> d,
       source_data |-> [abspath |-> source_abspath]] :
      l \in LibraryIds, s \in BOOLEAN, d \in DestinationFiles }

\* data.get('destination_files') where the default [] was meant to be given
get_destination_files_no_default(d) ==
    IF d.destination_files.t = "absent" THEN PyNone ELSE d.destination_files

\* data.get('destination_files') and data.get('destination_files', [])
get_destination_files(d) ==
    IF d.destination_files.t = "absent" THEN PyNone ELSE d.destination_files
get_destination_files_default(d) ==
    IF d.destination_files.t = "absent" THEN PyList(<<>>) ELSE d.destination_files

(* ------------------------------ paths ---------------------------------- *)
\* get_temp_directory: <dirname(cache_file_path)>/postprocessor_script
temp_directory_path(cache_file_path) ==
    path_join(path_dirname(cache_file_path), <<"postprocessor_script">>)

\* get_dependency_cache_directory: <profile>/.dependency_cache/<library_id>
dependency_cache_path(library_id) ==
    path_join(path_join(profile_directory, <<".dependency_cache">>), str(PyInt(library_id)))

\* the cache_path of get_executable_venv_python / get_executable_node
pip_cache_path(dependency_cache_directory) == path_join(dependency_cache_directory, <<"pip">>)
node_cache_path(dependency_cache_directory) == path_join(dependency_cache_directory, <<"node">>)

(* ------------------------------ state ---------------------------------- *)
VARIABLES
    settings,       \* per thread: the Settings object of the invocation
    data,           \* per thread: the data payload of the invocation
    pc,             \* per thread: position in the hook
    ret,            \* per thread: where exec_subprocess returns to
    cmd,            \* per thread: local 'cmd' of the hook
    args,           \* per thread: local 'args' of the hook
    variable_map,   \* per thread: local dict, in insertion order
    idx,            \* per thread: position of the for loop in destination_files
    executable,     \* per thread: local 'executable' of build_script
    call,           \* per thread: arguments of the running exec_subprocess
    proc,           \* per thread: the child process of the running exec_subprocess
    result,         \* per thread: how the hook ended
    environ,        \* os.environ['PIP_CACHE_DIR'] of the host process
    dirs,           \* directories on disk
    files,          \* files on disk
    trace,          \* per thread: what the invocation has done so far
    initial,        \* environment and disk when the hook was called
    overlapped      \* some invocation began while another was under way

vars == <<settings, data, pc, ret, cmd, args, variable_map, idx, executable,
          call, proc, result, environ, dirs, files, trace, initial, overlapped>>

\* os.environ has no PIP_CACHE_DIR
Unset == <<>>

NoProc == [alive |-> FALSE, written |-> 0, pending |-> 0, eof |-> FALSE,
           exited |-> FALSE, returncode |-> 0]
NoCall == [cmd |-> <<>>, args |-> <<>>, cwd |-> <<>>, site |-> "none", full_command |-> <<>>]
NoResult == [kind |-> "running", message |-> <<>>]

SourceFile == [path |-> source_abspath, content |-> <<"media">>, mode |-> {"r", "w"},
               size |-> 1024]

\* every directory an invocation may create
AllDirs ==
    UNION { makedirs_set(temp_directory_path(task_cache_path(t))) : t \in Threads }
    \cup UNION { makedirs_set(pip_cache_path(dependency_cache_path(l)))
                 \cup makedirs_set(node_cache_path(dependency_cache_path(l))) : l \in LibraryIds }

\* the disk and environment the host process may be in when the hook is called:
\* untouched, or left behind by an earlier invocation for the last library
Worlds ==
    { [environ |-> Unset, dirs |-> {}],
      [environ |-> pip_cache_path(dependency_cache_path(
                       CHOOSE l \in LibraryIds : \A m \in LibraryIds : m <= l)),
       dirs |-> AllDirs] }

Locals(started) ==
    /\ pc = [t \in Threads |-> IF t \in started THEN "gate" ELSE "idle"]
    /\ ret = [t \in Threads |-> "none"]
    /\ cmd = [t \in Threads |-> <<>>]
    /\ args = [t \in Threads |-> <<>>]
    /\ variable_map = [t \in Threads |-> <<>>]
    /\ idx = [t \in Threads |-> 0]
    /\ executable = [t \in Threads |-> <<>>]
    /\ call = [t \in Threads |-> NoCall]
    /\ proc = [t \in Threads |-> NoProc]
    /\ result = [t \in Threads |-> NoResult]
    /\ trace = [t \in Threads |-> <<>>]

\* one thread of the host calls the hook with a saved configuration and a task's data
Init ==
    \E s1 \in SettingsSet, d1 \in DataSet(1), w \in Worlds, fs \in {{}, {SourceFile}} :
        /\ settings = [t \in Threads |-> s1]
        /\ data = [t \in Threads |-> [d1 EXCEPT !.final_cache_path = task_cache_path(t)]]
        /\ Locals({1})
        /\ environ = w.environ
        /\ dirs = w.dirs
        /\ files = fs
        /\ initial = [environ |-> w.environ, dirs |-> w.dirs, files |-> fs]
        /\ overlapped = FALSE

(* --------------------------- small helpers ----------------------------- *)
\* an entry of the history: what was done (ev), by which call site of the hook
\* (site), on what text; for a child its cwd and PIP_CACHE_DIR, the position k of
\* the for loop, and the exit status
Event(ev, site, text, cwd, env, k, code) ==
    [ev |-> ev, site |-> site, text |-> text, cwd |-> cwd, env |-> env, k |-> k, code |-> code]
FsEvent(ev, site, path) == Event(ev, site, path, <<>>, <<>>, 0, 0)

Log(t, e) == trace' = [trace EXCEPT ![t] = Append(@, e)]
Log2(t, e, f) == trace' = [trace EXCEPT ![t] = Append(Append(@, e), f)]

\* open(path, "w").write(content): the file is created or truncated, its mode kept
write_file(fs, path, content) ==
    LET old == {f \in fs : f.path = path}
        mode == IF old = {} THEN {"r", "w"} ELSE (CHOOSE f \in old : TRUE).mode
    IN  (fs \ old) \cup {[path |-> path, content |-> content, mode |-> mode,
                          size |-> Len(content)]}

\* os.chmod(path, os.stat(path).st_mode | stat.S_IEXEC)
chmod_exec(fs, path) ==
    {IF f.path = path THEN [f EXCEPT !.mode = @ \cup {"x"}] ELSE f : f \in fs}

\* variable_map[key] = value on an insertion-ordered dict
dict_set(m, key, value) ==
    IF \E i \in 1..Len(m) : m[i].k = key
    THEN [i \in 1..Len(m) |-> IF m[i].k = key THEN [k |-> key, v |-> value] ELSE m[i]]
    ELSE Append(m, [k |-> key, v |-> value])

RECURSIVE substitute(_, _)
\* for key in variable_map: value = variable_map.get(key);
\*     if value is None: value = key;  s = s.replace(key, value)
substitute(s, m) ==
    IF m = <<>> THEN s
    ELSE LET value == IF m[1].v.t = "NoneType" THEN m[1].k ELSE m[1].v.v
         IN  substitute(str_replace(s, m[1].k, value), Tail(m))

\* the exit codes a child may end with
ExitCodes == {0, 2}

script_extension(input_type) ==
    CASE input_type = "bash" -> "sh"
      [] input_type \in {"python", "python3"} -> "py"
      [] input_type = "node" -> "js"
      [] OTHER -> "txt"

temp_working_directory(t) == temp_directory_path(data[t].final_cache_path)
dependency_cache_directory(t) == dependency_cache_path(data[t].library_id)
script_path(t) ==
    path_join(temp_working_directory(t),
              <<"script.", script_extension(settings[t].input_type)>>)

(* ----------------- on_postprocessor_task_results ----------------------- *)
\* the gate with its test of task_processing_success the wrong way round
gate_blocks_on_success(s, d) == s.only_on_task_processing_success /\ d.task_processing_success

\* lines 336-340: the success gate
gate_blocks(s, d) == s.only_on_task_processing_success /\ ~d.task_processing_success

Gate(t) ==
    /\ pc[t] = "gate"
    /\ IF gate_blocks(settings[t], data[t])
       THEN /\ pc' = [pc EXCEPT ![t] = "done"]
            /\ result' = [result EXCEPT ![t] = [kind |-> "returned", message |-> <<>>]]
       ELSE /\ pc' = [pc EXCEPT ![t] = "resolve"]
            /\ UNCHANGED result
    /\ overlapped' = (overlapped \/ \E u \in Threads \ {t} : pc[u] \notin {"idle", "gate", "done"})
    /\ UNCHANGED <<settings, data, ret, cmd, args, variable_map, idx, executable,
                   call, proc, environ, dirs, files, trace, initial>>

\* lines 342-345: cmd is the setting, or what build_script is about to return
resolve_command(t) ==
    /\ pc[t] = "resolve"
    /\ cmd' = [cmd EXCEPT ![t] = settings[t].cmd]
    /\ pc' = [pc EXCEPT ![t] =
                IF settings[t].input_type # "command" THEN "get_temp_directory" ELSE "prepare"]
    /\ UNCHANGED <<settings, data, ret, args, variable_map, idx, executable,
                   call, proc, result, environ, dirs, files, trace, initial, overlapped>>

(* --------------------------- build_script ------------------------------ *)
\* if not os.path.isdir(p): os.makedirs(p)
ensure_dir(t, p) ==
    IF p \notin dirs
    THEN /\ dirs' = dirs \cup makedirs_set(p)
         /\ Log(t, FsEvent("makedirs", "fs", p))
    ELSE UNCHANGED <<dirs, trace>>

\* line 286, get_temp_directory (248-258)
get_temp_directory(t) ==
    /\ pc[t] = "get_temp_directory"
    /\ ensure_dir(t, temp_working_directory(t))
    /\ pc' = [pc EXCEPT ![t] = "get_dependency_cache_directory"]
    /\ UNCHANGED <<settings, data, ret, cmd, args, variable_map, idx, executable,
                   call, proc, result, environ, files, initial, overlapped>>

\* line 290, get_dependency_cache_directory (261-273)
get_dependency_cache_directory(t) ==
    /\ pc[t] = "get_dependency_cache_directory"
    /\ ensure_dir(t, dependency_cache_directory(t))
    /\ pc' = [pc EXCEPT ![t] = "build_script_executable"]
    /\ UNCHANGED <<settings, data, ret, cmd, args, variable_map, idx, executable,
                   call, proc, result, environ, files, initial, overlapped>>

\* build_script taking only 'python', not 'python3', for a Python script
build_script_executable_python_only(t) ==
    /\ pc[t] = "build_script_executable"
    /\ executable' = [executable EXCEPT ![t] = which(settings[t].input_type)]
    /\ pc' = [pc EXCEPT ![t] =
                CASE settings[t].input_type = "python" -> "venv_requirements"
                  [] settings[t].input_type = "node" -> "node_package"
                  [] OTHER -> "write_script"]
    /\ UNCHANGED <<settings, data, ret, cmd, args, variable_map, idx,
                   call, proc, result, environ, dirs, files, trace, initial, overlapped>>

\* lines 293-302: the default executable and the provisioner to call
build_script_executable(t) ==
    /\ pc[t] = "build_script_executable"
    /\ executable' = [executable EXCEPT ![t] = which(settings[t].input_type)]
    /\ pc' = [pc EXCEPT ![t] =
                CASE settings[t].input_type \in {"python", "python3"} -> "venv_requirements"
                  [] settings[t].input_type = "node" -> "node_package"
                  [] OTHER -> "write_script"]
    /\ UNCHANGED <<settings, data, ret, cmd, args, variable_map, idx,
                   call, proc, result, environ, dirs, files, trace, initial, overlapped>>

\* get_executable_venv_python, lines 195-199: requirements.txt
venv_requirements(t) ==
    /\ pc[t] = "venv_requirements"
    /\ executable' = [executable EXCEPT ![t] = which("python3")]
    /\ files' = write_file(files, path_join(temp_working_directory(t), <<"requirements.txt">>),
                           settings[t].script_dependencies)
    /\ Log(t, FsEvent("write", "requirements",
                     path_join(temp_working_directory(t), <<"requirements.txt">>)))
    /\ pc' = [pc EXCEPT ![t] = "venv_create"]
    /\ UNCHANGED <<settings, data, ret, cmd, args, variable_map, idx,
                   call, proc, result, environ, dirs, initial, overlapped>>

\* get_executable_venv_python, lines 202-207: the pip cache directory, then "python3 -m venv venv"
venv_create(t) ==
    /\ pc[t] = "venv_create"
    /\ ensure_dir(t, pip_cache_path(dependency_cache_directory(t)))
    /\ call' = [call EXCEPT ![t] =
                  [cmd |-> executable[t] \o <<" ", "-m", " ", "venv", " ", "venv">>,
                   args |-> <<>>, cwd |-> temp_working_directory(t), site |-> "venv",
                   full_command |-> <<>>]]
    /\ ret' = [ret EXCEPT ![t] = "venv_install"]
    /\ pc' = [pc EXCEPT ![t] = "exec_subprocess"]
    /\ UNCHANGED <<settings, data, cmd, args, variable_map, idx, executable,
                   proc, result, environ, files, initial, overlapped>>

\* PIP_CACHE_DIR set to the library's cache directory instead of its pip directory
pip_cache_dir_value_without_pip(t) == dependency_cache_directory(t)

\* the value line 211 stores in os.environ['PIP_CACHE_DIR']
pip_cache_dir_value(t) == pip_cache_path(dependency_cache_directory(t))

\* get_executable_venv_python, lines 208-212: the venv's python, PIP_CACHE_DIR, then pip install
venv_install(t) ==
    /\ pc[t] = "venv_install"
    /\ executable' = [executable EXCEPT ![t] =
            path_join(path_join(path_join(temp_working_directory(t), <<"venv">>), <<"bin">>),
                      <<"python3">>)]
    /\ environ' = pip_cache_dir_value(t)
    /\ Log(t, FsEvent("setenv", "pip", pip_cache_dir_value(t)))
    /\ call' = [call EXCEPT ![t] =
                  [cmd |-> executable'[t] \o <<" ", "-m", " ", "pip", " ", "install", " ",
                                               "-r", " ", "requirements.txt">>,
                   args |-> <<>>, cwd |-> temp_working_directory(t), site |-> "pip",
                   full_command |-> <<>>]]
    /\ ret' = [ret EXCEPT ![t] = "write_script"]
    /\ pc' = [pc EXCEPT ![t] = "exec_subprocess"]
    /\ UNCHANGED <<settings, data, cmd, args, variable_map, idx, proc, result, dirs, files, initial, overlapped>>

\* get_executable_node, lines 228-233: package.json
node_package(t) ==
    /\ pc[t] = "node_package"
    /\ files' = write_file(files, path_join(temp_working_directory(t), <<"package.json">>),
                           settings[t].script_dependencies)
    /\ Log(t, FsEvent("write", "package",
                     path_join(temp_working_directory(t), <<"package.json">>)))
    /\ pc' = [pc EXCEPT ![t] = "node_install"]
    /\ UNCHANGED <<settings, data, ret, cmd, args, variable_map, idx, executable,
                   call, proc, result, environ, dirs, initial, overlapped>>

\* get_executable_node, lines 236-245: the node cache directory, then "npm install --cache ..."
node_install(t) ==
    /\ pc[t] = "node_install"
    /\ ensure_dir(t, node_cache_path(dependency_cache_directory(t)))
    /\ executable' = [executable EXCEPT ![t] = which("node")]
    /\ call' = [call EXCEPT ![t] =
                  [cmd |-> which("npm") \o <<" ", "install", " ", "--cache", " ">>
                           \o node_cache_path(dependency_cache_directory(t))
                           \o <<" ", "--prefer-offline", " ">>,
                   args |-> <<>>, cwd |-> temp_working_directory(t), site |-> "npm",
                   full_command |-> <<>>]]
    /\ ret' = [ret EXCEPT ![t] = "write_script"]
    /\ pc' = [pc EXCEPT ![t] = "exec_subprocess"]
    /\ UNCHANGED <<settings, data, cmd, args, variable_map, idx, proc, result, environ, files, initial, overlapped>>

\* lines 305-307: the script file
write_script(t) ==
    /\ pc[t] = "write_script"
    /\ files' = write_file(files, script_path(t), settings[t].script)
    /\ Log(t, FsEvent("write", "script", script_path(t)))
    /\ pc' = [pc EXCEPT ![t] = "chmod_script"]
    /\ UNCHANGED <<settings, data, ret, cmd, args, variable_map, idx, executable,
                   call, proc, result, environ, dirs, initial, overlapped>>

\* lines 310-314 and 345: the script is made executable, cmd = "<executable> <script_path>"
chmod_script(t) ==
    /\ pc[t] = "chmod_script"
    /\ files' = chmod_exec(files, script_path(t))
    /\ Log(t, FsEvent("chmod", "script", script_path(t)))
    /\ cmd' = [cmd EXCEPT ![t] = format2(executable[t], script_path(t))]
    /\ pc' = [pc EXCEPT ![t] = "prepare"]
    /\ UNCHANGED <<settings, data, ret, args, variable_map, idx, executable,
                   call, proc, result, environ, dirs, initial, overlapped>>

(* ------------------ variables and the fan-out -------------------------- *)
\* args.replace('\n', ' ').replace('\r', '')
strip_line_breaks(a) == str_replace(str_replace(a, <<"\n">>, <<" ">>), <<"\r">>, <<>>)

\* os.path.getsize(abspath) if os.path.exists(abspath) else None
source_size(fs, abspath) ==
    IF \E f \in fs : f.path = abspath
    THEN PyInt((CHOOSE f \in fs : f.path = abspath).size)
    ELSE PyNone

\* the dict literal with both output placeholders filled in up front
base_variable_map_with_output_files(d, fs) ==
    << [k |-> K_library_id, v |-> PyStr(str(PyInt(d.library_id)))],
       [k |-> K_final_cache_path, v |-> PyStr(str(PyStr(d.final_cache_path)))],
       [k |-> K_source_file_path, v |-> PyStr(str(PyStr(d.source_data.abspath)))],
       [k |-> K_source_file_size, v |-> PyStr(str(source_size(fs, d.source_data.abspath)))],
       [k |-> K_output_files, v |-> PyStr(json_dumps(get_destination_files_default(d)))] >>

\* lines 355-360: the dict literal, in its order
base_variable_map(d, fs) ==
    << [k |-> K_library_id, v |-> PyStr(str(PyInt(d.library_id)))],
       [k |-> K_final_cache_path, v |-> PyStr(str(PyStr(d.final_cache_path)))],
       [k |-> K_source_file_path, v |-> PyStr(str(PyStr(d.source_data.abspath)))],
       [k |-> K_source_file_size, v |-> PyStr(str(source_size(fs, d.source_data.abspath)))] >>

\* lines 346-360
prepare(t) ==
    /\ pc[t] = "prepare"
    /\ args' = [args EXCEPT ![t] = strip_line_breaks(settings[t].args)]
    /\ variable_map' = [variable_map EXCEPT ![t] = base_variable_map(data[t], files)]
    /\ pc' = [pc EXCEPT ![t] = "fan_out"]
    /\ UNCHANGED <<settings, data, ret, cmd, idx, executable,
                   call, proc, result, environ, dirs, files, trace, initial, overlapped>>

\* line 364-365: the mode, and iter(data.get('destination_files'))
fan_out(t) ==
    /\ pc[t] = "fan_out"
    /\ IF settings[t].run_for_each_destination_file
       THEN IF get_destination_files(data[t]).t = "NoneType"
            THEN /\ pc' = [pc EXCEPT ![t] = "done"]
                 /\ result' = [result EXCEPT ![t] =
                        [kind |-> "raised", message |-> <<"'NoneType' object is not iterable">>]]
            ELSE /\ pc' = [pc EXCEPT ![t] = "for_each"]
                 /\ UNCHANGED result
       ELSE /\ pc' = [pc EXCEPT ![t] = "batch"]
            /\ UNCHANGED result
    /\ idx' = [idx EXCEPT ![t] = 0]
    /\ UNCHANGED <<settings, data, ret, cmd, args, variable_map, executable,
                   call, proc, environ, dirs, files, trace, initial, overlapped>>

\* lines 365-378: one pass of the loop body, up to the call of exec_subprocess
for_each(t) ==
    /\ pc[t] = "for_each"
    /\ LET destination_files == get_destination_files(data[t]).v
       IN  IF idx[t] >= Len(destination_files)
           THEN /\ pc' = [pc EXCEPT ![t] = "return"]
                /\ UNCHANGED <<idx, variable_map, cmd, args, call, ret>>
           ELSE LET destination_file == destination_files[idx[t] + 1]
                    vm == dict_set(variable_map[t], K_output_file_path,
                                   PyStr(str(PyStr(destination_file))))
                IN  /\ idx' = [idx EXCEPT ![t] = @ + 1]
                    /\ variable_map' = [variable_map EXCEPT ![t] = vm]
                    /\ cmd' = [cmd EXCEPT ![t] = substitute(@, vm)]
                    /\ args' = [args EXCEPT ![t] = substitute(@, vm)]
                    /\ call' = [call EXCEPT ![t] =
                                  [cmd |-> cmd'[t], args |-> args'[t], cwd |-> <<>>,
                                   site |-> "file", full_command |-> <<>>]]
                    /\ ret' = [ret EXCEPT ![t] = "for_each"]
                    /\ pc' = [pc EXCEPT ![t] = "exec_subprocess"]
    /\ UNCHANGED <<settings, data, executable, proc, result, environ, dirs, files, trace, initial, overlapped>>

\* lines 380-392: the single execution
batch(t) ==
    /\ pc[t] = "batch"
    /\ LET vm == dict_set(variable_map[t], K_output_files,
                          PyStr(str(PyStr(json_dumps(get_destination_files_default(data[t]))))))
       IN  /\ variable_map' = [variable_map EXCEPT ![t] = vm]
           /\ cmd' = [cmd EXCEPT ![t] = substitute(@, vm)]
           /\ args' = [args EXCEPT ![t] = substitute(@, vm)]
    /\ call' = [call EXCEPT ![t] =
                  [cmd |-> cmd'[t], args |-> args'[t], cwd |-> <<>>,
                   site |-> "batch", full_command |-> <<>>]]
    /\ ret' = [ret EXCEPT ![t] = "return"]
    /\ pc' = [pc EXCEPT ![t] = "exec_subprocess"]
    /\ UNCHANGED <<settings, data, idx, executable, proc, result, environ, dirs, files, trace, initial, overlapped>>

\* the hook falls off its end
hook_return(t) ==
    /\ pc[t] = "return"
    /\ pc' = [pc EXCEPT ![t] = "done"]
    /\ result' = [result EXCEPT ![t] = [kind |-> "returned", message |-> <<>>]]
    /\ UNCHANGED <<settings, data, ret, cmd, args, variable_map, idx, executable,
                   call, proc, environ, dirs, files, trace, initial, overlapped>>

(* -------------------------- exec_subprocess ---------------------------- *)
\* lines 161-167: the command line; Popen unless it is blank (then None is returned)
exec_subprocess(t) ==
    /\ pc[t] = "exec_subprocess"
    /\ LET full_command == format2(call[t].cmd, call[t].args)
       IN  /\ call' = [call EXCEPT ![t].full_command = full_command]
           /\ IF strip_nonempty(full_command)
              THEN /\ proc' = [proc EXCEPT ![t] = [NoProc EXCEPT !.alive = TRUE]]
                   /\ Log2(t, Event("call", call[t].site, full_command, call[t].cwd, <<>>, idx[t], 0),
                              Event("Popen", call[t].site, full_command, call[t].cwd, environ, idx[t], 0))
                   /\ pc' = [pc EXCEPT ![t] = "readline"]
              ELSE /\ Log2(t, Event("call", call[t].site, full_command, call[t].cwd, <<>>, idx[t], 0),
                              Event("return", call[t].site, <<"None">>, <<>>, <<>>, idx[t], 0))
                   /\ pc' = [pc EXCEPT ![t] = ret[t]]
                   /\ UNCHANGED proc
    /\ UNCHANGED <<settings, data, ret, cmd, args, variable_map, idx, executable,
                   result, environ, dirs, files, initial, overlapped>>

\* lines 170-174: a line is read and logged; the loop ends on '' with the child reaped
readline(t) ==
    /\ pc[t] = "readline"
    /\ IF proc[t].pending > 0
       THEN /\ proc' = [proc EXCEPT ![t].pending = @ - 1]
            /\ UNCHANGED pc
       ELSE /\ proc[t].eof
            /\ proc[t].exited
            /\ pc' = [pc EXCEPT ![t] = "returncode"]
            /\ UNCHANGED proc
    /\ UNCHANGED <<settings, data, ret, cmd, args, variable_map, idx, executable,
                   call, result, environ, dirs, files, trace, initial, overlapped>>

\* the error message without the command line
failure_message_without_command(full_command) == <<"Failed to execute command">>

\* "Failed to execute command: '{}'".format(full_command)
failure_message(full_command) ==
    <<"Failed to execute command: ", "'">> \o full_command \o <<"'">>

\* the exit status tested for being known instead of for being zero
exit_status_not_none(returncode) == returncode \in Int

\* what lines 178-181 do with the exit status: return True or raise
exit_status_ok(returncode) == returncode = 0

\* exec_subprocess reporting the failure without stopping its caller
returncode_logged_only(t) ==
    /\ pc[t] = "returncode"
    /\ proc[t].exited
    /\ IF proc[t].returncode = 0
       THEN Log(t, Event("return", call[t].site, <<"True">>, <<>>, <<>>, idx[t],
                         proc[t].returncode))
       ELSE Log(t, Event("raise", call[t].site, <<"Failed to execute command: ", "'">>
                         \o call[t].full_command \o <<"'">>, <<>>, <<>>, idx[t],
                         proc[t].returncode))
    /\ pc' = [pc EXCEPT ![t] = ret[t]]
    /\ proc' = [proc EXCEPT ![t] = NoProc]
    /\ UNCHANGED <<settings, data, ret, cmd, args, variable_map, idx, executable,
                   call, result, environ, dirs, files, initial, overlapped>>

\* lines 177-181
returncode(t) ==
    /\ pc[t] = "returncode"
    /\ proc[t].exited
    /\ IF exit_status_ok(proc[t].returncode)
       THEN /\ Log(t, Event("return", call[t].site, <<"True">>, <<>>, <<>>, idx[t],
                            proc[t].returncode))
            /\ pc' = [pc EXCEPT ![t] = ret[t]]
            /\ UNCHANGED result
       ELSE /\ Log(t, Event("raise", call[t].site, failure_message(call[t].full_command),
                            <<>>, <<>>, idx[t], proc[t].returncode))
            /\ pc' = [pc EXCEPT ![t] = "done"]
            /\ result' = [result EXCEPT ![t] =
                   [kind |-> "raised", message |-> failure_message(call[t].full_command)]]
    /\ proc' = [proc EXCEPT ![t] = NoProc]
    /\ UNCHANGED <<settings, data, ret, cmd, args, variable_map, idx, executable,
                   call, environ, dirs, files, initial, overlapped>>

(* --------------------------- the child process ------------------------- *)
\* the child prints a line to the pipe
child_write(t) ==
    /\ proc[t].alive
    /\ ~proc[t].eof
    /\ proc[t].written < MaxLines
    /\ proc' = [proc EXCEPT ![t].written = @ + 1, ![t].pending = @ + 1]
    /\ UNCHANGED <<settings, data, pc, ret, cmd, args, variable_map, idx, executable,
                   call, result, environ, dirs, files, trace, initial, overlapped>>

\* the last writer closes the pipe
child_close(t) ==
    /\ proc[t].alive
    /\ ~proc[t].eof
    /\ proc' = [proc EXCEPT ![t].eof = TRUE]
    /\ UNCHANGED <<settings, data, pc, ret, cmd, args, variable_map, idx, executable,
                   call, result, environ, dirs, files, trace, initial, overlapped>>

\* the shell exits with a status
child_exit(t) ==
    /\ proc[t].alive
    /\ ~proc[t].exited
    /\ \E code \in ExitCodes :
          proc' = [proc EXCEPT ![t].exited = TRUE, ![t].returncode = code]
    /\ UNCHANGED <<settings, data, pc, ret, cmd, args, variable_map, idx, executable,
                   call, result, environ, dirs, files, trace, initial, overlapped>>

(* --------------------------- specifications ---------------------------- *)
Next ==
    \E t \in Threads :
        \/ Gate(t)
        \/ resolve_command(t)
        \/ get_temp_directory(t)
        \/ get_dependency_cache_directory(t)
        \/ build_script_executable(t)
        \/ venv_requirements(t)
        \/ venv_create(t)
        \/ venv_install(t)
        \/ node_package(t)
        \/ node_install(t)
        \/ write_script(t)
        \/ chmod_script(t)
        \/ prepare(t)
        \/ fan_out(t)
        \/ for_each(t)
        \/ batch(t)
        \/ hook_return(t)
        \/ exec_subprocess(t)
        \/ readline(t)
        \/ returncode(t)
        \/ child_write(t)
        \/ child_close(t)
        \/ child_exit(t)

Spec == Init /\ [][Next]_vars

\* the host calls the hook from every thread, for tasks of different libraries,
\* with a script to provision
InitConc ==
    /\ \E it \in [Threads -> {"python3", "node"}] :
          settings = [t \in Threads |->
                        [only_on_task_processing_success |-> FALSE,
                         run_for_each_destination_file |-> (t = 1),
                         input_type |-> it[t],
                         script |-> <<"script-body">>,
                         cmd |-> <<>>,
                         args |-> K_output_file_path,
                         script_dependencies |-> <<"dependencies">>]]
    /\ data = [t \in Threads |->
                 [final_cache_path |-> task_cache_path(t),
                  library_id |-> t,
                  task_processing_success |-> TRUE,
                  destination_files |-> PyList(SubSeq(FilePool, 1, 1)),
                  source_data |-> [abspath |-> source_abspath]]]
    /\ Locals(Threads)
    /\ environ = Unset
    /\ dirs = {}
    /\ files = {SourceFile}
    /\ initial = [environ |-> Unset, dirs |-> {}, files |-> {SourceFile}]
    /\ overlapped = FALSE

SpecConc == InitConc /\ [][Next]_vars

(* ------------------------- reading the history ------------------------- *)
\* the text sub occurs in s
Contains(s, sub) == \E i \in 1..Len(s) : StartsAt(s, i, sub)

RECURSIVE CountFrom(_, _, _)
CountFrom(s, i, sub) ==
    IF i > Len(s) THEN 0
    ELSE IF StartsAt(s, i, sub) THEN 1 + CountFrom(s, i + Len(sub), sub)
    ELSE CountFrom(s, i + 1, sub)

\* how many times sub occurs in s
Count(s, sub) == CountFrom(s, 1, sub)

\* the positions of trace[t] that hold an event ev of call site site
Positions(t, ev, site) ==
    {i \in 1..Len(trace[t]) : trace[t][i].ev = ev /\ trace[t][i].site = site}

Started == {t \in Threads : pc[t] # "idle"}

\* the text the user configured that reaches the command line: cmd (unless a
\* script replaces it) and args
ConfiguredText(t) ==
    IF settings[t].input_type = "command"
    THEN format2(settings[t].cmd, settings[t].args)
    ELSE settings[t].args

PerFile(t) == settings[t].run_for_each_destination_file
FileList(t) ==
    IF data[t].destination_files.t = "absent" THEN <<>> ELSE data[t].destination_files.v
\* the success gate is closed for the invocation of thread t
GateClosed(t) ==
    settings[t].only_on_task_processing_success /\ ~data[t].task_processing_success
\* the positions of trace[t] where a child's exit status was acted on
Completions(t, site) == Positions(t, "return", site) \cup Positions(t, "raise", site)
SourceOnDisk == \E f \in files : f.path = source_abspath

(* ------------------------------- C1 ------------------------------------ *)
\* C1: in per-file mode with n >= 2 distinct destination files and cmd/args
\* that contain {output_file_path}, the k-th command line handed to the
\* executor has the token replaced by the k-th file and by no other file.
C1_KthCommandNamesKthFile ==
    \A t \in Started :
        (PerFile(t) /\ Len(FileList(t)) >= 2
         /\ Contains(ConfiguredText(t), K_output_file_path)) =>
        \A i \in Positions(t, "call", "file") :
            LET e == trace[t][i]
            IN  /\ Count(e.text, K_output_file_path) = 0
                /\ Contains(e.text, FileList(t)[e.k])
                /\ \A j \in 1..Len(FileList(t)) :
                      j # e.k => ~Contains(e.text, FileList(t)[j])

(* ------------------------------- C5 ------------------------------------ *)
\* C5: when the source file is not on disk, every {source_file_size} of cmd
\* and args is still the literal token in each executed command line, in
\* per-file and in batch mode.
C5_MissingSizeLeavesToken ==
    \A t \in Started :
        ~SourceOnDisk =>
        \A i \in Positions(t, "call", "file") \cup Positions(t, "call", "batch") :
            Count(trace[t][i].text, K_source_file_size)
                = Count(ConfiguredText(t), K_source_file_size)

(* ------------------------------- C2 ------------------------------------ *)
\* C2: in per-file mode with a non-empty list of n files the executor is
\* called once per file in list order, the call for file k+1 comes after the
\* call for file k has completed, a non-zero exit for file k means no call
\* for files k+1..n, and an invocation that got past the gate has made n
\* calls when it returns and k calls when file k was the first to fail.
C2_OncePerFileInOrderFailFast ==
    \A t \in Started :
        (PerFile(t) /\ Len(FileList(t)) >= 1) =>
        LET P == Positions(t, "call", "file")
            n == Len(FileList(t))
        IN  /\ \A i \in P :
                  /\ trace[t][i].k = Cardinality({j \in P : j <= i})
                  /\ trace[t][i].k <= n
                  /\ trace[t][i].k > 1 =>
                        \E j \in Completions(t, "file") :
                            j < i /\ trace[t][j].k = trace[t][i].k - 1
            /\ \A j \in Completions(t, "file") :
                  trace[t][j].code # 0 =>
                      /\ \A i \in P : i < j
                      /\ Cardinality(P) = trace[t][j].k
                      /\ pc[t] = "done"
            /\ (pc[t] = "done" /\ result[t].kind = "returned" /\ ~GateClosed(t)) =>
                  Cardinality(P) = n

\* two files, the first one's command fails: one call only
C2_Witness ==
    \E t \in Started :
        /\ PerFile(t) /\ Len(FileList(t)) >= 2
        /\ pc[t] = "done" /\ result[t].kind = "raised"
        /\ Cardinality(Positions(t, "call", "file")) = 1
        /\ \E j \in Completions(t, "file") : trace[t][j].code # 0

(* ------------------------------- C3 ------------------------------------ *)
RECURSIVE JsonArrayBody(_)
\* the elements of a JSON array of strings, built from the last one back
JsonArrayBody(l) ==
    IF Len(l) = 0 THEN <<>>
    ELSE LET last == l[Len(l)]
             quoted == <<"\"">>
                       \o str_replace(str_replace(last, <<"\\">>, <<"\\", "\\">>),
                                      <<"\"">>, <<"\\", "\"">>)
                       \o <<"\"">>
         IN  IF Len(l) = 1 THEN quoted
             ELSE JsonArrayBody(SubSeq(l, 1, Len(l) - 1)) \o <<",", " ">> \o quoted

JsonArrayOf(l) == <<"[">> \o JsonArrayBody(l) \o <<"]">>

\* the invocation of thread t ended without a provisioning command failing
\* and without the gate closing: command resolution succeeded
ResolvedAndDone(t) ==
    /\ pc[t] = "done"
    /\ ~GateClosed(t)
    /\ \A site \in {"venv", "pip", "npm"} :
          \A j \in Completions(t, site) : trace[t][j].code = 0

\* C3: in batch mode the executor is called exactly once when the gate
\* passes and command resolution succeeds, whatever destination_files is
\* (empty and missing included), and in that command line every
\* {output_files} is the JSON array of the destination list ("[]" when the
\* list is empty or missing).
C3_BatchRunsOnceWithJsonList ==
    \A t \in Started :
        ~PerFile(t) =>
        LET P == Positions(t, "call", "batch")
        IN  /\ Cardinality(P) <= 1
            /\ Positions(t, "call", "file") = {}
            /\ ResolvedAndDone(t) => Cardinality(P) = 1
            /\ \A i \in P :
                  /\ Count(trace[t][i].text, K_output_files) = 0
                  /\ Count(trace[t][i].text, JsonArrayOf(FileList(t)))
                        = Count(ConfiguredText(t), K_output_files)

\* batch mode, destination_files missing, the token used twice
C3_Witness ==
    \E t \in Started :
        /\ ~PerFile(t)
        /\ data[t].destination_files.t = "absent"
        /\ Count(ConfiguredText(t), K_output_files) = 2
        /\ pc[t] = "done" /\ result[t].kind = "returned"
        /\ \E i \in Positions(t, "call", "batch") :
              Count(trace[t][i].text, <<"[", "]">>) = 2

(* ------------------------------- C4 ------------------------------------ *)
\* C4: with only_on_task_processing_success set and task_processing_success
\* false the hook returns without any effect, for every input_type and mode:
\* no child is spawned, no directory is created, no file is written and
\* PIP_CACHE_DIR is what it was.
C4_ClosedGateNoEffects ==
    \A t \in Started :
        GateClosed(t) =>
            /\ trace[t] = <<>>
            /\ ~proc[t].alive
            /\ pc[t] \in {"gate", "done"}
            /\ result[t].kind # "raised"
            /\ environ = initial.environ
            /\ dirs = initial.dirs
            /\ files = initial.files

\* a python3 script in per-file mode, the gate closed, the hook has returned
C4_Witness ==
    \E t \in Started :
        /\ GateClosed(t)
        /\ settings[t].input_type = "python3" /\ PerFile(t)
        /\ Len(FileList(t)) >= 1
        /\ initial.dirs = {}
        /\ pc[t] = "done" /\ result[t].kind = "returned"

(* ------------------------------- C6 ------------------------------------ *)
\* a child's exit status was acted on at position j (a blank command line
\* returns None without a child)
ChildCompletions(t) ==
    {j \in 1..Len(trace[t]) :
        \/ trace[t][j].ev = "raise"
        \/ trace[t][j].ev = "return" /\ trace[t][j].text = <<"True">>}

\* C6: the executor looks at the exit status only once the child's output
\* has been read to its end and the child has exited; status 0 makes it
\* return True, any other status makes it raise an error whose message
\* holds the whole command line "<cmd> <args>", and that error ends the hook.
C6_ExitStatusAfterOutputThenRaise ==
    \A t \in Started :
        /\ pc[t] = "returncode" =>
              proc[t].eof /\ proc[t].pending = 0 /\ proc[t].exited
        /\ \A j \in ChildCompletions(t) :
              LET e == trace[t][j]
              IN  /\ e.ev = "return" <=> e.code = 0
                  /\ e.ev = "raise" =>
                        /\ Contains(e.text, call[t].cmd \o <<" ">> \o call[t].args)
                        /\ j = Len(trace[t])
                        /\ pc[t] = "done"
                        /\ result[t].kind = "raised"
                        /\ result[t].message = e.text

\* a batch command with arguments exits with status 2
C6_Witness ==
    \E t \in Started :
        /\ pc[t] = "done" /\ result[t].kind = "raised"
        /\ Len(trace[t]) > 0
        /\ LET e == trace[t][Len(trace[t])]
           IN  /\ e.ev = "raise" /\ e.site = "batch" /\ e.code = 2
               /\ call[t].args # <<>>
               /\ Contains(e.text, <<"stat", " ">>)

(* ------------------------------- C7 ------------------------------------ *)
ProvisioningSites == {"venv", "pip", "npm"}

\* C7: a provisioning command (venv creation, pip install, npm install) that
\* exits non-zero ends the invocation with an error: the user's command is
\* run for no destination file, no later provisioning step runs, the script
\* file is not written, and the failed command is not run again.
C7_ProvisioningFailureIsFatal ==
    \A t \in Started :
        \A site \in ProvisioningSites :
            \A j \in Completions(t, site) :
                trace[t][j].code # 0 =>
                    /\ j = Len(trace[t])
                    /\ pc[t] = "done"
                    /\ result[t].kind = "raised"
                    /\ Positions(t, "call", "file") = {}
                    /\ Positions(t, "call", "batch") = {}
                    /\ Positions(t, "write", "script") = {}
                    /\ Positions(t, "chmod", "script") = {}
                    /\ Cardinality(Positions(t, "call", site)) = 1
                    /\ site = "venv" =>
                          /\ Positions(t, "call", "pip") = {}
                          /\ Positions(t, "setenv", "pip") = {}

\* venv creation fails for a python3 script with destination files to handle
C7_Witness ==
    \E t \in Started :
        /\ settings[t].input_type = "python3"
        /\ Len(FileList(t)) >= 1
        /\ pc[t] = "done"
        /\ \E j \in Completions(t, "venv") : trace[t][j].code # 0

(* ------------------------------- C8 ------------------------------------ *)
\* <profile>/.dependency_cache/<library_id>/<tool>
CacheDirOf(t, tool) ==
    <<"/", "profile", "/", ".dependency_cache", "/">> \o str_int(data[t].library_id)
        \o <<"/", tool>>

PackageManagerCalls(t) == Positions(t, "call", "pip") \cup Positions(t, "call", "npm")
UserCalls(t) == Positions(t, "call", "file") \cup Positions(t, "call", "batch")

\* C8: for a python3 or node script past the gate: the dependency cache
\* directory exists when the package manager is invoked against it, the
\* package manager has run before the script file is written and made
\* executable, and all of that has happened exactly once before the first
\* execution of the script; in per-file mode with n files the environment is
\* provisioned once and the script executed n times.
C8_ProvisionOnceBeforeScriptRuns ==
    \A t \in Started :
        settings[t].input_type \in {"python3", "node"} =>
        LET tool == IF settings[t].input_type = "python3" THEN "pip" ELSE "node"
            PM == PackageManagerCalls(t)
            W == Positions(t, "write", "script")
            X == Positions(t, "chmod", "script")
            U == UserCalls(t)
        IN  /\ Cardinality(PM) <= 1 /\ Cardinality(W) <= 1 /\ Cardinality(X) <= 1
            /\ Cardinality(Positions(t, "call", "venv")) <= 1
            /\ \A i \in PM :
                  /\ CacheDirOf(t, tool) \in dirs
                  /\ trace[t][i].site = (IF tool = "pip" THEN "pip" ELSE "npm")
                  /\ \A m \in Positions(t, "makedirs", "fs") :
                        trace[t][m].text = CacheDirOf(t, tool) => m < i
                  /\ tool = "node" => Contains(trace[t][i].text, CacheDirOf(t, tool))
                  /\ tool = "pip" =>
                        \A q \in Positions(t, "Popen", "pip") :
                            trace[t][q].env = CacheDirOf(t, tool)
                  /\ tool = "pip" =>
                        \E v \in Completions(t, "venv") : v < i /\ trace[t][v].code = 0
            /\ \A i \in W :
                  \E k \in Completions(t, IF tool = "pip" THEN "pip" ELSE "npm") :
                      k < i /\ trace[t][k].code = 0
            /\ \A i \in X : \E j \in W : j < i
            /\ \A i \in U :
                  /\ Cardinality(PM) = 1 /\ Cardinality(W) = 1 /\ Cardinality(X) = 1
                  /\ \A j \in X : j < i
                  /\ \E f \in files :
                        /\ "x" \in f.mode
                        /\ f.content = settings[t].script
                        /\ Contains(trace[t][i].text, f.path)
            /\ (PerFile(t) /\ data[t].destination_files.t = "list"
                /\ pc[t] = "done" /\ result[t].kind = "returned" /\ ~GateClosed(t)) =>
                  /\ Cardinality(PM) = 1
                  /\ Cardinality(Positions(t, "call", "file")) = Len(FileList(t))

\* a python3 script has run for each of two files on a disk that had no cache
C8_Witness ==
    \E t \in Started :
        /\ settings[t].input_type = "python3"
        /\ PerFile(t) /\ Len(FileList(t)) = 2
        /\ initial.dirs = {}
        /\ pc[t] = "done" /\ result[t].kind = "returned"
        /\ Cardinality(Positions(t, "call", "file")) = 2
        /\ Cardinality(Positions(t, "call", "venv")) = 1

(* ------------------------------- C9 ------------------------------------ *)
\* C9: the placeholder of the other mode stays as written: in per-file mode
\* every {output_files} of cmd and args reaches the command line as the
\* token itself, in batch mode every {output_file_path} does, and the hook
\* neither raises nor skips the execution because of it.
C9_OtherModesPlaceholderIsKept ==
    \A t \in Started :
        /\ \A i \in Positions(t, "call", "file") :
              Count(trace[t][i].text, K_output_files)
                  = Count(ConfiguredText(t), K_output_files)
        /\ \A i \in Positions(t, "call", "batch") :
              Count(trace[t][i].text, K_output_file_path)
                  = Count(ConfiguredText(t), K_output_file_path)
        /\ (pc[t] = "done" /\ ~GateClosed(t)) =>
              \/ \E j \in ChildCompletions(t) : trace[t][j].code # 0
              \/ PerFile(t) /\ data[t].destination_files.t = "absent"
              \/ /\ result[t].kind = "returned"
                 /\ Cardinality(UserCalls(t)) = (IF PerFile(t) THEN Len(FileList(t)) ELSE 1)

\* per-file mode, {output_files} in cmd and in args, every file handled
C9_Witness ==
    \E t \in Started :
        /\ PerFile(t) /\ Len(FileList(t)) >= 2
        /\ Count(ConfiguredText(t), K_output_files) = 2
        /\ pc[t] = "done" /\ result[t].kind = "returned"
        /\ \E i \in Positions(t, "call", "file") :
              trace[t][i].k = 2 /\ Count(trace[t][i].text, K_output_files) = 2

(* ------------------------------- C10 ----------------------------------- *)
\* C10: PIP_CACHE_DIR belongs to the whole process, only the Python
\* provisioner writes it, and it is written in one step and read by pip
\* install in another: an invocation that overlaps no other runs its pip
\* install with its own <library_id>/pip path, while overlapping python3
\* invocations of different libraries can run pip install with the other's
\* path.
C10_PipCacheDirIsProcessWide ==
    /\ environ # initial.environ =>
          \E t \in Started :
              /\ settings[t].input_type = "python3"
              /\ Positions(t, "setenv", "pip") # {}
              /\ environ = CacheDirOf(t, "pip")
    /\ \A t \in Started :
          /\ settings[t].input_type # "python3" => Positions(t, "setenv", "pip") = {}
          /\ \A i \in Positions(t, "Popen", "pip") :
                /\ \E j \in Positions(t, "setenv", "pip") :
                      j < i /\ trace[t][j].text = CacheDirOf(t, "pip")
                /\ ~overlapped => trace[t][i].env = CacheDirOf(t, "pip")

\* pip install of one invocation started with the other invocation's path
C10_Witness ==
    \E t \in Started, u \in Started :
        /\ t # u
        /\ data[t].library_id # data[u].library_id
        /\ settings[t].input_type = "python3" /\ settings[u].input_type = "python3"
        /\ \E i \in Positions(t, "Popen", "pip") :
              /\ trace[t][i].env = CacheDirOf(u, "pip")
              /\ trace[t][i].env # CacheDirOf(t, "pip")

====
